---- MODULE Spec2Model ----
(***************************************************************************)
(* Model of the appointment backend in src/app.py: the priority           *)
(* classifier, the notification sender, the appointment collection and    *)
(* the four JSON endpoints (book, list, approve, reject).                  *)
(*                                                                         *)
(* Python strings are sequences of one-character strings, so that         *)
(* lower(), the `in` substring test, slicing, hex parsing/formatting and   *)
(* the lexicographic comparison of timestamps are computed, not assumed.   *)
(* JSON / Python values are tagged: [t |-> "str", v |-> <<chars>>],        *)
(* [t |-> "null", ...] for None and [t |-> "num", ...] for a number.  A    *)
(* document field that was never set is not in the document's domain.      *)
(* The document collection is a reliable in-memory sequence in insertion   *)
(* order; the mail relay may fail on any send.                             *)
(***************************************************************************)
EXTENDS Integers, Sequences, FiniteSets, TLC

VARIABLES store, request, response, mail

vars == <<store, request, response, mail>>

(***************************************************************************)
(* Bounds of the model.                                                    *)
(***************************************************************************)
MaxRecords == 2
MaxFrags == 3
MaxListed == 3

(***************************************************************************)
(* Python values.                                                          *)
(***************************************************************************)
Str(s) == [t |-> "str", v |-> s]
None == [t |-> "null", v |-> <<>>]
Num(digits) == [t |-> "num", v |-> digits]

\* Python truth value of a JSON value (what all([...]) tests).
Truthy(x) ==
    CASE x.t = "str" -> Len(x.v) > 0
      [] x.t = "num" -> x.v # <<"0">>
      [] OTHER -> FALSE

(***************************************************************************)
(* Characters: case mapping, hexadecimal digits, ASCII order of the        *)
(* characters an ISO timestamp is made of.                                 *)
(***************************************************************************)
UpperCase == <<"A","B","C","D","E","F","G","H","I","J","K","L","M",
               "N","O","P","Q","R","S","T","U","V","W","X","Y","Z">>
LowerCase == <<"a","b","c","d","e","f","g","h","i","j","k","l","m",
               "n","o","p","q","r","s","t","u","v","w","x","y","z">>

\* The lower-case letter of every upper-case letter, and the converse.
ToLower == [c \in {UpperCase[i] : i \in DOMAIN UpperCase} |->
               LowerCase[CHOOSE i \in DOMAIN UpperCase : UpperCase[i] = c]]

ToUpper == [c \in {LowerCase[i] : i \in DOMAIN LowerCase} |->
               UpperCase[CHOOSE i \in DOMAIN LowerCase : LowerCase[i] = c]]

LowerChar(c) == IF c \in DOMAIN ToLower THEN ToLower[c] ELSE c

UpperChar(c) == IF c \in DOMAIN ToUpper THEN ToUpper[c] ELSE c

\* str.lower()
lower(s) == [i \in 1..Len(s) |-> LowerChar(s[i])]

\* str.upper(), used to spell request identifiers in upper-case hex
upper(s) == [i \in 1..Len(s) |-> UpperChar(s[i])]

\* s[:n]
Prefix(s, n) == SubSeq(s, 1, IF Len(s) < n THEN Len(s) ELSE n)

\* Python's `needle in haystack` on strings
In(needle, haystack) ==
    \E i \in 1..(Len(haystack) - Len(needle) + 1) :
        SubSeq(haystack, i, i + Len(needle) - 1) = needle

(***************************************************************************)
(* calculate_priority                                                      *)
(***************************************************************************)
urgent_keywords ==
    << <<"e","m","e","r","g","e","n","c","y">>,
       <<"s","e","v","e","r","e">>,
       <<"a","c","u","t","e">>,
       <<"u","r","g","e","n","t">>,
       <<"c","r","i","t","i","c","a","l">>,
       <<"b","l","e","e","d","i","n","g">>,
       <<"c","h","e","s","t"," ","p","a","i","n">> >>

high_keywords ==
    << <<"p","a","i","n">>,
       <<"f","e","v","e","r">>,
       <<"i","n","f","e","c","t","i","o","n">>,
       <<"i","n","j","u","r","y">> >>

\* any(keyword in text for keyword in keywords)
AnyKeywordIn(keywords, text) ==
    \E k \in DOMAIN keywords : In(keywords[k], text)

\* Faulty variant: the text is matched without case folding.
calculate_priority_nolower(issues) ==
    IF AnyKeywordIn(urgent_keywords, issues) THEN "High"
    ELSE IF AnyKeywordIn(high_keywords, issues) THEN "Medium"
    ELSE "Low"

calculate_priority(issues) ==
    LET issues_lower == lower(issues)
    IN  IF AnyKeywordIn(urgent_keywords, issues_lower) THEN "High"
        ELSE IF AnyKeywordIn(high_keywords, issues_lower) THEN "Medium"
        ELSE "Low"

(***************************************************************************)
(* ObjectId: 12 bytes; str(oid) is 24 lower-case hex characters and        *)
(* ObjectId(text) parses 24 hex characters of either case.                 *)
(***************************************************************************)
HexDigits == <<"0","1","2","3","4","5","6","7","8","9","a","b","c","d","e","f">>

\* The value of every hexadecimal digit, lower or upper case.
HexValue ==
    [c \in {HexDigits[i] : i \in DOMAIN HexDigits}
            \cup {UpperChar(HexDigits[i]) : i \in DOMAIN HexDigits} |->
        (CHOOSE i \in DOMAIN HexDigits : HexDigits[i] = LowerChar(c)) - 1]

IsHex(c) == c \in DOMAIN HexValue

HexVal(c) == HexValue[c]

\* str(ObjectId): binascii.hexlify of the 12 bytes
ObjectIdStr(oid) ==
    [i \in 1..(2 * Len(oid)) |->
        IF i % 2 = 1 THEN HexDigits[(oid[(i + 1) \div 2] \div 16) + 1]
                     ELSE HexDigits[(oid[i \div 2] % 16) + 1]]

\* ObjectId(text) raises InvalidId unless text is 24 hex characters
ObjectIdValid(text) == Len(text) = 24 /\ \A i \in 1..Len(text) : IsHex(text[i])

\* ObjectId(text): bytes.fromhex
ObjectId(text) ==
    [i \in 1..12 |-> HexVal(text[2 * i - 1]) * 16 + HexVal(text[2 * i])]

\* The identifier insert_one assigns to the n-th document of the collection:
\* 4 timestamp bytes, 5 process bytes, 3 counter bytes.
NewObjectId(n) == <<101, 171, 205, 200 + n, 26, 43, 60, 77, 94, 0, 0, n>>

(***************************************************************************)
(* datetime.utcnow().isoformat(): the microsecond part is printed only     *)
(* when it is not zero.  An instant is [s |-> second, u |-> microsecond]   *)
(* within one minute of one day.                                           *)
(***************************************************************************)
Digits == <<"0","1","2","3","4","5","6","7","8","9">>

RECURSIVE Pow10(_)
Pow10(n) == IF n = 0 THEN 1 ELSE 10 * Pow10(n - 1)

\* n printed in w digits, zero padded
Pad(n, w) == [i \in 1..w |-> Digits[((n \div Pow10(w - i)) % 10) + 1]]

IsoMinute == <<"2","0","2","4","-","0","5","-","1","7","T","0","9",":","3","0",":">>

isoformat(now) ==
    IsoMinute \o Pad(now.s, 2) \o (IF now.u = 0 THEN <<>> ELSE <<".">> \o Pad(now.u, 6))

\* The clock reading the requests of the lifecycle model see (the listing
\* model below draws its timestamps from ListInstants).
Instants == { [s |-> 8, u |-> 250000] }

(***************************************************************************)
(* send_email: every relay error is caught and turned into False.          *)
(***************************************************************************)
RelayOutcomes == {"ok", "error"}

\* Faulty variant: a relay error propagates to the caller.
send_email_raising(to_email, subject, relay) ==
    [raised |-> relay # "ok", value |-> relay = "ok"]

send_email(to_email, subject, relay) ==
    [raised |-> FALSE, value |-> relay = "ok"]

DOCTOR_EMAIL == Str(<<"d","o","c","@","x">>)

\* One entry of the log of the send_email calls of a request.
Sent(to_email, subject, result) ==
    [to |-> to_email, subject |-> subject, delivered |-> result.value]

(***************************************************************************)
(* The appointment collection.                                             *)
(***************************************************************************)
IsNone(x) == "t" \in DOMAIN x /\ x.t = "null"

\* Faulty variant: a booked appointment is stored as already approved.
NewAppointment_approved(patient_name, patient_email, issues, preferred_time, priority, now) ==
    [patient_name |-> patient_name,
     patient_email |-> patient_email,
     issues |-> issues,
     preferred_time |-> preferred_time,
     priority |-> priority,
     status |-> "approved",
     created_at |-> Str(isoformat(now)),
     doctor_approved |-> TRUE,
     google_meet_link |-> None]

\* The appointment document of book_appointment
NewAppointment(patient_name, patient_email, issues, preferred_time, priority, now) ==
    [patient_name |-> patient_name,
     patient_email |-> patient_email,
     issues |-> issues,
     preferred_time |-> preferred_time,
     priority |-> priority,
     status |-> "pending",
     created_at |-> Str(isoformat(now)),
     doctor_approved |-> FALSE,
     google_meet_link |-> None]

\* insert_one: the document gets its _id and goes to the end of the collection
insert_one(coll, doc, oid) == Append(coll, ("_id" :> oid) @@ doc)

Matching(coll, oid) == {i \in DOMAIN coll : coll[i]["_id"] = oid}

First(S) == CHOOSE i \in S : \A j \in S : i <= j

\* update_one({"_id": oid}, {"$set": fields}): the first match, if any
update_one(coll, oid, fields) ==
    IF Matching(coll, oid) = {} THEN coll
    ELSE [coll EXCEPT ![First(Matching(coll, oid))] = fields @@ @]

\* find_one({"_id": oid}): the first match or None
find_one(coll, oid) ==
    IF Matching(coll, oid) = {} THEN None
    ELSE coll[First(Matching(coll, oid))]

\* Faulty variant: subscripting None yields None instead of raising TypeError.
GetItem_lenient(obj, key) ==
    IF IsNone(obj) THEN [raised |-> FALSE, value |-> None]
    ELSE [raised |-> FALSE, value |-> obj[key]]

\* obj[key] as used on the result of find_one
GetItem(obj, key) ==
    IF IsNone(obj) THEN [raised |-> TRUE, value |-> None]
    ELSE [raised |-> FALSE, value |-> obj[key]]

(***************************************************************************)
(* Responses.                                                              *)
(***************************************************************************)
Resp(op, code, success, message, appointment_id, appointments) ==
    [op |-> op, code |-> code, success |-> success, message |-> message,
     appointment_id |-> appointment_id, appointments |-> appointments]

NoResponse == Resp("none", 0, FALSE, "", None, <<>>)

(***************************************************************************)
(* The requests the clients send.                                          *)
(***************************************************************************)
Data(patient_name, patient_email, issues, preferred_time) ==
    [patient_name |-> patient_name, patient_email |-> patient_email,
     issues |-> issues, preferred_time |-> preferred_time]

Fields == {"patient_name", "patient_email", "issues", "preferred_time"}

SomeName == Str(<<"A","n","a">>)
SomeEmail == Str(<<"a","n","a","@","x">>)
SomeTime == Str(<<"M","o","n"," ","9","a","m">>)

\* A High text that also holds a Medium keyword, and a Medium text; both
\* need case folding to be recognised.
IssueTexts ==
    { <<"S","e","v","e","r","e"," ","p","a","i","n">>,
      <<"m","i","l","d"," ","F","e","v","e","r">> }

ValidData == { Data(SomeName, SomeEmail, Str(i), SomeTime) : i \in IssueTexts }

\* A field that is missing or null reads as None through data.get; an empty
\* one is the empty string (or the number 0).
SomeIssues == Str(<<"c","o","u","g","h">>)

\* Bodies with one field missing or empty, or all of them.
InvalidData ==
    { [Data(SomeName, SomeEmail, SomeIssues, SomeTime) EXCEPT ![f] = e] :
          f \in Fields, e \in {None, Str(<<>>)} }
    \cup { Data(SomeName, SomeEmail, Num(<<"0">>), SomeTime) }
    \cup { Data(e, e, e, e) : e \in {None, Str(<<>>)} }

\* Bodies whose issues field is a non-zero number: present, but not a string.
NumericData == { Data(SomeName, SomeEmail, Num(<<"7">>), SomeTime) }

BookData == ValidData \cup InvalidData \cup NumericData

\* Path identifiers: those of the documents that may exist, the first of
\* them also spelled in upper-case hex, one well-formed identifier that is
\* never assigned, and two malformed ones (too short; 24 characters, one of
\* them not hex).
AppointmentIds ==
    { ObjectIdStr(NewObjectId(n)) : n \in 1..(MaxRecords + 1) }
    \cup { upper(ObjectIdStr(NewObjectId(1))) }
    \cup { <<"a","b","c">>,
           [i \in 1..24 |-> IF i = 24 THEN "g" ELSE "0"] }

(***************************************************************************)
(* book_appointment                                                        *)
(***************************************************************************)
\* Faulty variant: a field passes validation as soon as it is not None.
all_notnone(values) == \A i \in DOMAIN values : ~IsNone(values[i])

\* all([...]) of line 132
all(values) == \A i \in DOMAIN values : Truthy(values[i])

AllFieldsRequired == "All fields are required"

\* The request up to the validation of line 132: rejected without reading
\* the clock or calling the relay.
book_rejected(data) ==
    /\ ~all(<<data.patient_name, data.patient_email, data.issues, data.preferred_time>>)
    /\ request' = [op |-> "book", data |-> data]
    /\ response' = Resp("book", 400, FALSE, AllFieldsRequired, None, <<>>)
    /\ mail' = <<>>
    /\ UNCHANGED store

\* issues is present but has no lower(): AttributeError, caught at line 209.
book_failed(data) ==
    /\ all(<<data.patient_name, data.patient_email, data.issues, data.preferred_time>>)
    /\ data.issues.t # "str"
    /\ request' = [op |-> "book", data |-> data]
    /\ response' = Resp("book", 500, FALSE, "AttributeError", None, <<>>)
    /\ mail' = <<>>
    /\ UNCHANGED store

\* Lines 138-207: classify, insert, send the two emails, acknowledge.
book_stored(data, now, relay1, relay2) ==
    LET patient_name == data.patient_name
        patient_email == data.patient_email
        issues == data.issues
        preferred_time == data.preferred_time
        priority == calculate_priority(issues.v)
        appointment == NewAppointment(patient_name, patient_email, issues,
                                      preferred_time, priority, now)
        oid == NewObjectId(Len(store) + 1)
        to_patient == send_email(patient_email, <<"Appointment Booking Received">>, relay1)
        to_doctor == send_email(DOCTOR_EMAIL, <<"New Appointment - Priority: ", priority>>,
                                relay2)
        log1 == <<Sent(patient_email, <<"Appointment Booking Received">>, to_patient)>>
        log2 == <<Sent(DOCTOR_EMAIL, <<"New Appointment - Priority: ", priority>>, to_doctor)>>
    IN  /\ all(<<patient_name, patient_email, issues, preferred_time>>)
        /\ issues.t = "str"
        /\ Len(store) < MaxRecords
        /\ request' = [op |-> "book", data |-> data]
        /\ store' = insert_one(store, appointment, oid)
        /\ IF to_patient.raised
           THEN /\ mail' = log1
                /\ response' = Resp("book", 500, FALSE, "SMTPException", None, <<>>)
           ELSE IF to_doctor.raised
           THEN /\ mail' = log1 \o log2
                /\ response' = Resp("book", 500, FALSE, "SMTPException", None, <<>>)
           ELSE /\ mail' = log1 \o log2
                /\ response' = Resp("book", 200, TRUE,
                        "Form submitted successfully! Email will be sent shortly",
                        Str(ObjectIdStr(oid)), <<>>)

book_appointment(data) ==
    \/ book_rejected(data)
    \/ book_failed(data)
    \/ \E now \in Instants, relay1 \in RelayOutcomes, relay2 \in RelayOutcomes :
          book_stored(data, now, relay1, relay2)

BookAppointment == \E data \in BookData : book_appointment(data)

(***************************************************************************)
(* approve_appointment and reject_appointment                              *)
(***************************************************************************)
MeetBase == <<"https://meet.google.com/">>

LinkPrefixLen == 10

\* Faulty variant: the link is cut two characters shorter.
MeetLink_short(appointment_id) == MeetBase \o Prefix(appointment_id, LinkPrefixLen - 2)

\* f"https://meet.google.com/{appointment_id[:10]}"
MeetLink(appointment_id) == MeetBase \o Prefix(appointment_id, LinkPrefixLen)

\* The $set document of approve_appointment
ApproveFields(meet_link, now) ==
    [status |-> "approved",
     doctor_approved |-> TRUE,
     google_meet_link |-> Str(meet_link),
     approved_at |-> Str(isoformat(now))]

\* Faulty variant: rejection keeps no rejection time.
RejectFields_notime(now) ==
    [status |-> "rejected",
     doctor_approved |-> FALSE]

\* The $set document of reject_appointment
RejectFields(now) ==
    [status |-> "rejected",
     doctor_approved |-> FALSE,
     rejected_at |-> Str(isoformat(now))]

approve_appointment(appointment_id, now, relay) ==
    LET meet_link == MeetLink(appointment_id)
    IN  /\ request' = [op |-> "approve", appointment_id |-> Str(appointment_id)]
        /\ IF ~ObjectIdValid(appointment_id)
           THEN \* ObjectId(appointment_id) raises InvalidId
                /\ response' = Resp("approve", 500, FALSE, "InvalidId", None, <<>>)
                /\ mail' = <<>>
                /\ UNCHANGED store
           ELSE LET oid == ObjectId(appointment_id)
                    updated == update_one(store, oid, ApproveFields(meet_link, now))
                    appointment == find_one(updated, oid)
                    patient_name == GetItem(appointment, "patient_name")
                    preferred_time == GetItem(appointment, "preferred_time")
                    patient_email == GetItem(appointment, "patient_email")
                    result == send_email(patient_email.value, <<"Appointment Confirmed">>, relay)
                IN  /\ store' = updated
                    /\ IF patient_name.raised \/ preferred_time.raised \/ patient_email.raised
                       THEN /\ mail' = <<>>
                            /\ response' = Resp("approve", 500, FALSE, "TypeError", None, <<>>)
                       ELSE /\ mail' = <<Sent(patient_email.value, <<"Appointment Confirmed">>,
                                              result)>>
                            /\ response' =
                                 IF result.raised
                                 THEN Resp("approve", 500, FALSE, "SMTPException", None, <<>>)
                                 ELSE Resp("approve", 200, TRUE, "Appointment approved",
                                           None, <<>>)

reject_appointment(appointment_id, now, relay) ==
    /\ request' = [op |-> "reject", appointment_id |-> Str(appointment_id)]
    /\ IF ~ObjectIdValid(appointment_id)
       THEN \* ObjectId(appointment_id) raises InvalidId
            /\ response' = Resp("reject", 500, FALSE, "InvalidId", None, <<>>)
            /\ mail' = <<>>
            /\ UNCHANGED store
       ELSE LET oid == ObjectId(appointment_id)
                updated == update_one(store, oid, RejectFields(now))
                appointment == find_one(updated, oid)
                patient_name == GetItem(appointment, "patient_name")
                patient_email == GetItem(appointment, "patient_email")
                result == send_email(patient_email.value,
                                     <<"Appointment Rescheduling Required">>, relay)
            IN  /\ store' = updated
                /\ IF patient_name.raised \/ patient_email.raised
                   THEN /\ mail' = <<>>
                        /\ response' = Resp("reject", 500, FALSE, "TypeError", None, <<>>)
                   ELSE /\ mail' = <<Sent(patient_email.value,
                                          <<"Appointment Rescheduling Required">>, result)>>
                        /\ response' =
                             IF result.raised
                             THEN Resp("reject", 500, FALSE, "SMTPException", None, <<>>)
                             ELSE Resp("reject", 200, TRUE, "Appointment rejected", None, <<>>)

ApproveAppointment ==
    \E appointment_id \in AppointmentIds, now \in Instants, relay \in RelayOutcomes :
        approve_appointment(appointment_id, now, relay)

RejectAppointment ==
    \E appointment_id \in AppointmentIds, now \in Instants, relay \in RelayOutcomes :
        reject_appointment(appointment_id, now, relay)

(***************************************************************************)
(* get_appointments                                                        *)
(***************************************************************************)
\* The characters of an ISO timestamp in ASCII order.
Ascii == <<"-", ".", "0","1","2","3","4","5","6","7","8","9", ":", "T">>

Code(c) == CHOOSE i \in DOMAIN Ascii : Ascii[i] = c

\* a <= b as the store compares strings: by the first differing character,
\* a proper prefix first.
StrLeq(a, b) ==
    LET n == IF Len(a) < Len(b) THEN Len(a) ELSE Len(b)
        diff == {i \in 1..n : a[i] # b[i]}
    IN  IF diff = {} THEN Len(a) <= Len(b)
        ELSE Code(a[First(diff)]) < Code(b[First(diff)])

Orders(n) == {p \in [1..n -> 1..n] : \A i, j \in 1..n : p[i] = p[j] => i = j}

\* find().sort("created_at", -1): every order of the documents that is
\* descending by created_at; the order among equal timestamps is the store's.
FindSorted(coll) ==
    { [i \in 1..Len(coll) |-> coll[p[i]]] : p \in
        { q \in Orders(Len(coll)) :
            \A i \in 1..(Len(coll) - 1) :
                StrLeq(coll[q[i + 1]].created_at.v, coll[q[i]].created_at.v) } }

\* Faulty variant: an unrecognized priority ranks before High.
priority_order_get_first(priority) ==
    CASE priority = "High" -> 0
      [] priority = "Medium" -> 1
      [] priority = "Low" -> 2
      [] OTHER -> 0 - 1

\* priority_order.get(x["priority"], 3)
priority_order_get(priority) ==
    CASE priority = "High" -> 0
      [] priority = "Medium" -> 1
      [] priority = "Low" -> 2
      [] OTHER -> 3

\* x goes behind every element whose key is not greater: a stable insertion
InsertStable(sorted, x) ==
    LET p == Cardinality({i \in DOMAIN sorted :
                 priority_order_get(sorted[i].priority) <= priority_order_get(x.priority)})
    IN  SubSeq(sorted, 1, p) \o <<x>> \o SubSeq(sorted, p + 1, Len(sorted))

RECURSIVE SortStableFrom(_, _, _)
SortStableFrom(sorted, appointments, i) ==
    IF i > Len(appointments) THEN sorted
    ELSE SortStableFrom(InsertStable(sorted, appointments[i]), appointments, i + 1)

\* appointments.sort(key=...): list.sort is stable
SortByPriority(appointments) == SortStableFrom(<<>>, appointments, 1)

\* apt["_id"] = str(apt["_id"])
WithStrId(apt) == [apt EXCEPT !["_id"] = Str(ObjectIdStr(@))]

get_appointments(found) ==
    LET appointments == [i \in DOMAIN found |-> WithStrId(found[i])]
    IN  /\ request' = [op |-> "list"]
        /\ response' = Resp("list", 200, TRUE, "", None, SortByPriority(appointments))
        /\ mail' = <<>>
        /\ UNCHANGED store

GetAppointments == \E found \in FindSorted(store) : get_appointments(found)

(***************************************************************************)
(* The lifecycle specification: an empty collection and any sequence of    *)
(* requests.                                                               *)
(***************************************************************************)
NoRequest == [op |-> "none"]

Init ==
    /\ store = <<>>
    /\ request = NoRequest
    /\ response = NoResponse
    /\ mail = <<>>

Next ==
    \/ BookAppointment
    \/ ApproveAppointment
    \/ RejectAppointment
    \/ GetAppointments

Spec == Init /\ [][Next]_vars

(***************************************************************************)
(* The listing specification: get_appointments applied to every content    *)
(* of the collection up to MaxListed documents, with any priority value    *)
(* (one of them not a recognised tier) and any of three timestamps.        *)
(***************************************************************************)
ListInstants == { [s |-> 8, u |-> 0], [s |-> 8, u |-> 250000], [s |-> 10, u |-> 0] }

ListPriorities == {"High", "Medium", "Low", "Urgent"}

ListDoc(n, priority, now) ==
    ("_id" :> NewObjectId(n))
        @@ NewAppointment(SomeName, SomeEmail, SomeIssues, SomeTime, priority, now)

\* Every collection of exactly n such documents.
ListStores(n) ==
    { [i \in 1..n |-> ListDoc(i, f[i][1], f[i][2])] :
        f \in [1..n -> ListPriorities \X ListInstants] }

InitListing ==
    /\ \E n \in 0..MaxListed : store \in ListStores(n)
    /\ request = NoRequest
    /\ response = NoResponse
    /\ mail = <<>>

NextListing == GetAppointments

SpecListing == InitListing /\ [][NextListing]_vars

(***************************************************************************)
(* The classifier specification: calculate_priority applied to every text  *)
(* that is a concatenation of up to MaxFrags fragments.  The fragments are *)
(* keywords, pieces of keywords and fillers, in mixed case, so that        *)
(* keywords also arise across fragment borders.                            *)
(***************************************************************************)
Fragments ==
    { <<"s","e","v","e","r","e">>,
      <<"S","E","V">>,
      <<"e","r","e">>,
      <<"c","h","e","s","t">>,
      <<" ">>,
      <<"p","a","i","n">>,
      <<"P","A","I">>,
      <<"n">>,
      <<"F","e","v","e","r">>,
      <<"a","c","u","t","e">>,
      <<"l","e","s","s">>,
      <<"x">> }

RECURSIVE Concat(_)
Concat(parts) == IF parts = <<>> THEN <<>> ELSE Head(parts) \o Concat(Tail(parts))

\* Every text made of exactly n fragments.
Texts(n) == { Concat(parts) : parts \in [1..n -> Fragments] }

InitClassify ==
    /\ store = <<>>
    /\ \E n \in 0..MaxFrags : \E text \in Texts(n) :
          request = [op |-> "classify", issues |-> Str(text)]
    /\ response = NoResponse
    /\ mail = <<>>

Classify ==
    /\ request.op = "classify"
    /\ response.op = "none"
    /\ response' = Resp("classify", 0, TRUE, calculate_priority(request.issues.v), None, <<>>)
    /\ UNCHANGED <<store, request, mail>>

NextClassify == Classify

SpecClassify == InitClassify /\ [][NextClassify]_vars

(***************************************************************************)
(* Properties.                                                             *)
(***************************************************************************)
\* The request of the step addressed document i by its identifier, exactly
\* as book_appointment returned it.
Addresses(req, doc) == req.appointment_id = Str(ObjectIdStr(doc["_id"]))

\* The path identifier names document doc: the same 24 hex digits, in
\* either case.
Resolves(text, doc) == lower(text) = ObjectIdStr(doc["_id"])

IsReview(req) == req.op \in {"approve", "reject"}

MissingOrEmpty(x) == x = None \/ x = Str(<<>>)

NonEmptyText(x) == x.t = "str" /\ x.v # <<>>

\* C1: every change of an appointment's status is pending -> approved or
\* pending -> rejected; an approved or rejected record never changes status
\* again.
C1_StatusLeavesOnlyPending ==
    [][\A i \in DOMAIN store :
          store'[i].status # store[i].status
              => /\ store[i].status = "pending"
                 /\ store'[i].status \in {"approved", "rejected"}]_vars

\* C2: in every reachable state each appointment has a non-null meeting
\* link if and only if its status is approved.
C2_LinkIffApproved ==
    \A i \in DOMAIN store :
        (store[i].google_meet_link # None) <=> (store[i].status = "approved")

C4_BookingStoresOnePending ==
    [][(response'.op = "book" /\ response'.success)
          => /\ Len(store') = Len(store) + 1
             /\ SubSeq(store', 1, Len(store)) = store
             /\ LET rec == store'[Len(store')]
                IN  /\ rec.status = "pending"
                    /\ rec.doctor_approved = FALSE
                    /\ rec.google_meet_link = None
                    /\ rec.priority = calculate_priority(request'.data.issues.v)
                    /\ rec.issues = request'.data.issues
                    /\ response'.appointment_id = Str(ObjectIdStr(rec["_id"]))
                    /\ \A i \in DOMAIN store : store[i]["_id"] # rec["_id"]]_vars

C4_Witness ==
    /\ response.op = "book"
    /\ response.success
    /\ Len(store) = 2
    /\ store[1].status = "approved"
    /\ store[2].status = "pending"
    /\ store[2].priority = "High"

C6_RejectOfPending ==
    [][\A i \in DOMAIN store :
          (/\ request'.op = "reject"
           /\ Addresses(request', store[i])
           /\ store[i].status = "pending")
              => /\ Len(store') = Len(store)
                 /\ store'[i].status = "rejected"
                 /\ store'[i].doctor_approved = FALSE
                 /\ "rejected_at" \in DOMAIN store'[i]
                 /\ NonEmptyText(store'[i].rejected_at)
                 /\ store'[i].google_meet_link = None
                 /\ \A j \in DOMAIN store : j # i => store'[j] = store[j]]_vars

C6_Witness ==
    /\ request.op = "reject"
    /\ response.success
    /\ Len(store) = 2
    /\ Addresses(request, store[1])
    /\ store[1].status = "rejected"
    /\ "approved_at" \notin DOMAIN store[1]
    /\ store[2].status = "approved"

\* The tier of a priority value: High before Medium before Low, anything
\* else last.
Tier(priority) ==
    CASE priority = "High" -> 1
      [] priority = "Medium" -> 2
      [] priority = "Low" -> 3
      [] OTHER -> 4

\* Instant a is not earlier than instant b.
NotEarlier(a, b) == a.s > b.s \/ (a.s = b.s /\ a.u >= b.u)

\* The record at position i of the listing was created no earlier than the
\* one at position j.
CreatedNotEarlier(x, y) ==
    \A a, b \in ListInstants \cup Instants :
        (isoformat(a) = x.created_at.v /\ isoformat(b) = y.created_at.v)
            => NotEarlier(a, b)

\* C7: the listing returns all stored appointments, every High record
\* before every Medium one, every Medium before every Low one, records with
\* an unrecognized priority last, and within one tier in descending
\* created_at order.
C7_ListingOrdered ==
    response.op = "list" =>
        LET listed == response.appointments
        IN  /\ response.success
            /\ Len(listed) = Len(store)
            /\ \A i \in DOMAIN store :
                   \E j \in DOMAIN listed :
                       listed[j] = [store[i] EXCEPT !["_id"] = Str(ObjectIdStr(@))]
            /\ \A i, j \in DOMAIN listed :
                   i < j => /\ Tier(listed[i].priority) <= Tier(listed[j].priority)
                            /\ Tier(listed[i].priority) = Tier(listed[j].priority)
                                  => CreatedNotEarlier(listed[i], listed[j])

\* A later-created Medium record, an earlier-created Medium record and an
\* unrecognized one stored first: the listing reverses the creation order.
C7_Witness ==
    /\ response.op = "list"
    /\ Len(store) = 3
    /\ store[1].priority = "Urgent"
    /\ store[2].priority = "Medium"
    /\ store[3].priority = "Medium"
    /\ store[2].created_at = Str(isoformat([s |-> 8, u |-> 0]))
    /\ store[3].created_at = Str(isoformat([s |-> 10, u |-> 0]))
    /\ store[1].created_at = Str(isoformat([s |-> 8, u |-> 250000]))
    /\ response.appointments[1].created_at = store[3].created_at
    /\ response.appointments[3].priority = "Urgent"

\* The keyword sets as the specification lists them.
HighWords ==
    { <<"e","m","e","r","g","e","n","c","y">>, <<"s","e","v","e","r","e">>,
      <<"a","c","u","t","e">>, <<"u","r","g","e","n","t">>,
      <<"c","r","i","t","i","c","a","l">>, <<"b","l","e","e","d","i","n","g">>,
      <<"c","h","e","s","t"," ","p","a","i","n">> }

MediumWords ==
    { <<"p","a","i","n">>, <<"f","e","v","e","r">>,
      <<"i","n","f","e","c","t","i","o","n">>, <<"i","n","j","u","r","y">> }

\* Characters a and b are the same letter up to case, or the same character.
SameLetter(a, b) ==
    \/ a = b
    \/ \E k \in DOMAIN UpperCase :
          /\ a \in {UpperCase[k], LowerCase[k]}
          /\ b \in {UpperCase[k], LowerCase[k]}

\* word occurs in text as a substring, ignoring case.
Occurs(word, text) ==
    \E off \in 0..(Len(text) - Len(word)) :
        \A k \in DOMAIN word : SameLetter(text[off + k], word[k])

\* C8: calculate_priority returns High if the text contains, ignoring case,
\* any High keyword, whatever else it contains; otherwise Medium if it
\* contains any Medium keyword; otherwise Low, also for the empty string.
C8_ClassifierByKeyword ==
    response.op = "classify" =>
        LET text == request.issues.v
        IN  response.message =
                IF \E w \in HighWords : Occurs(w, text) THEN "High"
                ELSE IF \E w \in MediumWords : Occurs(w, text) THEN "Medium"
                ELSE "Low"

\* "SEVerepain": a High keyword in mixed case across two fragments, next to
\* a Medium keyword.
C8_Witness ==
    /\ response.op = "classify"
    /\ request.issues.v = <<"S","E","V","e","r","e","p","a","i","n">>
    /\ response.message = "High"

ValidBooking(req) ==
    req.op = "book" /\ \A f \in Fields : NonEmptyText(req.data[f])

\* C9: a valid booking, and an approve or reject of an existing record, end
\* in the success acknowledgment and in the stored record whatever the
\* relay did: both booking emails are attempted even when the first one
\* fails, and no failure surfaces as an error response.
C9_EmailOutcomeIrrelevant ==
    [][/\ ValidBooking(request')
            => /\ response' = Resp("book", 200, TRUE,
                       "Form submitted successfully! Email will be sent shortly",
                       Str(ObjectIdStr(store'[Len(store')]["_id"])), <<>>)
               /\ Len(store') = Len(store) + 1
               /\ store'[Len(store')].status = "pending"
               /\ store'[Len(store')].patient_email = request'.data.patient_email
               /\ Len(mail') = 2
       /\ \A i \in DOMAIN store :
            (IsReview(request') /\ Resolves(request'.appointment_id.v, store[i]))
               => /\ response'.code = 200
                  /\ response'.success
                  /\ response'.message = IF request'.op = "approve"
                                         THEN "Appointment approved"
                                         ELSE "Appointment rejected"
                  /\ store'[i].status = IF request'.op = "approve"
                                        THEN "approved" ELSE "rejected"
                  /\ Len(mail') = 1]_vars

\* A booking acknowledged and stored although both sends failed.
C9_Witness ==
    /\ ValidBooking(request)
    /\ response.success
    /\ Len(mail) = 2
    /\ ~mail[1].delivered
    /\ ~mail[2].delivered
    /\ store[Len(store)].status = "pending"

\* C10: approve or reject with an identifier that resolves to no stored
\* record returns a failure (success=false, 500), sends no email, creates
\* no record and leaves every stored record unchanged.
C10_UnknownIdFails ==
    [][(/\ IsReview(request')
        /\ \A i \in DOMAIN store : ~Resolves(request'.appointment_id.v, store[i]))
          => /\ response'.success = FALSE
             /\ response'.code = 500
             /\ mail' = <<>>
             /\ store' = store]_vars

\* A well-formed identifier that no stored record has, with records stored.
C10_Witness ==
    /\ request.op = "approve"
    /\ Len(request.appointment_id.v) = 24
    /\ \A k \in 1..24 : request.appointment_id.v[k] \in DOMAIN HexValue
    /\ \A i \in DOMAIN store : ~Resolves(request.appointment_id.v, store[i])
    /\ Len(store) = 2
    /\ response.code = 500
    /\ response.message = "TypeError"

====
